---- MODULE Spec2Model ----
(***************************************************************************)
(* The compaction worker of raftstore (worker/compact.rs): the Runner that *)
(* executes CompactRaftLog and CompactLockCF tasks against a shared        *)
(* engine, together with the engine contents it reads and writes, the      *)
(* task queue that delivers to it and the foreground writers it shares     *)
(* the engine with.                                                        *)
(***************************************************************************)
EXTENDS Integers, Sequences, FiniteSets, TLC

\* ---------------------------------------------------------------- bounds
MaxRegion == 2   \* region ids are 1..MaxRegion
MaxIdx    == 3   \* raft log indices are 1..MaxIdx; compact_idx is 1..MaxIdx+1
MaxByte   == 1   \* lock keys are the one-byte strings <<1>>..<<MaxByte>>
MaxWrites == 2   \* writes the rest of the system makes to the engine
MaxTasks  == 2   \* tasks scheduled on the worker's channel in one behaviour

Regions   == 1..MaxRegion
Indices   == 1..MaxIdx
CompactTo == 1..(MaxIdx + 1)

\* ------------------------------------------------------------------ keys
\* keys.rs lays a raft log key out as prefix ++ region_id ++ suffix ++ index,
\* big-endian, and the other per-region raft records as prefix ++ region_id
\* ++ suffix with a larger suffix byte.  A key is modelled as the sequence
\* of its fields; byte order is the lexicographic order of that sequence.
RAFT_LOG_SUFFIX   == 1
RAFT_STATE_SUFFIX == 2

raft_log_key(region_id, idx) == <<region_id, RAFT_LOG_SUFFIX, idx>>
raft_state_key(region_id)    == <<region_id, RAFT_STATE_SUFFIX>>

LogKeys   == {raft_log_key(r, i) : r \in Regions, i \in Indices}
OtherKeys == {raft_state_key(r) : r \in Regions}
RaftKeys  == LogKeys \cup OtherKeys

\* memcmp order of two encoded keys
KeyLess(a, b) ==
    \E n \in 0..Len(a) :
        /\ n <= Len(b)
        /\ \A j \in 1..n : a[j] = b[j]
        /\ \/ n = Len(a) /\ n < Len(b)
           \/ n < Len(a) /\ n < Len(b) /\ a[n + 1] < b[n + 1]

KeyLeq(a, b) == a = b \/ KeyLess(a, b)

\* keys::raft_log_index: Err unless the key has the length of a log key,
\* else its trailing index field (the region and suffix are not looked at).
\* Of another region's log key it yields that key's index; of any other
\* record, Err.
IsLogKeyLen(k)    == Len(k) = 3
raft_log_index(k) == k[3]

\* lock column family keys and the range bounds of a CompactLockCF task
EmptyKey   == <<>>
LockKeys   == {<<b>> : b \in 1..MaxByte}
RangeKeys  == {EmptyKey} \cup LockKeys

\* ----------------------------------------------------------------- tasks
\* enum Task; the engine handle every task carries is the one shared engine
CompactRaftLog(r, c) == [type |-> "CompactRaftLog", region_id |-> r, compact_idx |-> c]
CompactLockCF(s, e)  == [type |-> "CompactLockCF", start_key |-> s, end_key |-> e]

RaftTasks == {CompactRaftLog(r, c) : r \in Regions, c \in CompactTo}
LockTasks == {CompactLockCF(s, e) : s \in RangeKeys, e \in RangeKeys}
Tasks     == RaftTasks \cup LockTasks
NoTask    == [type |-> "none"]

\* Result<u64, Error> / Result<(), Error> of an operation
Ok(n)  == [kind |-> "Ok", n |-> n]
Err    == [kind |-> "Err", n |-> 0]
NoRes  == [kind |-> "None", n |-> 0]

VARIABLES
    raft,       \* keys present in CF_RAFT, as readers of the engine see it
    wal,        \* keys of CF_RAFT the engine recovers after a crash
    lock,       \* keys present in CF_LOCK
    queue,      \* tasks the worker has received and not yet passed to run()
    pc,         \* where the Runner is inside run()
    task,       \* the task run() was called with
    first_idx,  \* compact_raft_log's first_idx
    wb,         \* keys the WriteBatch deletes
    res,        \* what the operation returned to run()
    writes,     \* engine.write calls issued by this run()
    reqs,       \* compact_range_cf calls issued by this run()
    fg,         \* writes the rest of the system has made so far
    \* what an observer of the run records, to state the properties below
    quiet,      \* nothing but the Runner has written CF_RAFT since run() was called
    pre,        \* while quiet: CF_RAFT as it was when run() was called
    last,       \* until the next task is received: the task of the previous
                \* run(), when its operation returned Ok and CF_RAFT has not
                \* been written since (else NoTask)
    again,      \* the task received is that task once more, and CF_RAFT has
                \* still not been written by anyone else
    recovered,  \* after a crash, until the engine is used again: the batch
                \* whose write had been reported successful when it happened
    sent,       \* the tasks handed to the worker, in the order they were handed
                \* over (since it last received one with nothing else in hand)
    begun,      \* how many of them run() has been called with
    left,       \* CF_RAFT as it was when run() last returned, while no one
                \* else has written it
    late        \* the entries at or above compact_idx that others have put
                \* after the running call's seek and not removed since

vars == <<raft, wal, lock, queue, pc, task, first_idx, wb, res, writes, reqs, fg,
          pre, quiet, last, again, recovered, sent, begun, left, late>>

engine == <<raft, wal, lock>>
locals == <<first_idx, wb, writes, reqs>>
hist   == <<pre, quiet, last, again, recovered, late>>
order  == <<sent, begun, left>>

\* --------------------------------------------------------------- engine
CF_LOCK == "lock"

\* engine.seek_cf(cf, key): the first key of the column family at or after
\* `key`, as a set of at most one key (empty for None).
seek_cf(cf, key) ==
    {k \in cf : KeyLeq(key, k) /\ \A j \in cf : KeyLeq(key, j) => KeyLeq(k, j)}

\* wb.delete_cf(handle, key) records the delete in the batch; the engine is
\* not touched until the batch is written.  (delete_cf_direct is the faulty
\* variant that deletes on the engine at once.)
delete_cf_direct(cf, key) == cf \ {key}
delete_cf(cf, key) == cf

\* engine.write(wb) applies every delete of the batch at once ...
write(cf, batch) == cf \ batch

\* ... and, the default write options leaving the write-ahead log enabled,
\* makes them part of what a crash recovers.  (write_disable_wal is the
\* faulty variant line 90 warns against.)
write_disable_wal(durable, batch) == durable
write_wal(durable, batch) == durable \ batch

\* engine.compact_range_cf(cf_handle, start_key, end_key) as the engine
\* receives it  (compact_range_swapped is the faulty variant that passes
\* the bounds in the wrong order)
compact_range_swapped(cf, s, e) == [cf |-> cf, start_key |-> e, end_key |-> s]
compact_range_cf(cf, s, e) == [cf |-> cf, start_key |-> s, end_key |-> e]

\* Task's convention for the bounds: an empty vec is the smallest key as a
\* start and the largest key as an end.
InRange(req, k) ==
    /\ req.start_key = EmptyKey \/ KeyLeq(req.start_key, k)
    /\ req.end_key = EmptyKey \/ KeyLess(k, req.end_key)

\* ------------------------------------------------------ compact_raft_log
\* lines 75-79: first_idx after the seek and the decode, or Err
FirstIdx(cf, t) ==
    LET found == seek_cf(cf, raft_log_key(t.region_id, 0))
    IN  IF found = {} THEN Ok(t.compact_idx)
        ELSE LET k == CHOOSE x \in found : TRUE
             IN  IF IsLogKeyLen(k) THEN Ok(raft_log_index(k)) ELSE Err

\* line 80: `first_idx >= compact_idx`  (NoNeedStrict is the faulty variant
\* with `>`)
NoNeedStrict(first, stop) == first > stop
NoNeed(first, stop) == first >= stop

\* line 86: the indices the loop visits  (the faulty variants take in
\* compact_idx itself, or leave out first_idx)
BatchRangeInclusive(first, stop) == first..stop
BatchRangeSkipFirst(first, stop) == (first + 1)..(stop - 1)
BatchRange(first, stop) == first..(stop - 1)

\* lines 86-89: the batch after the loop has visited the indices below `upto`
\* (BatchKeysAllRegions is the faulty variant whose keys leave the region id
\* out, so that the range goes in every region)
BatchKeysAllRegions(r, first, upto) ==
    {raft_log_key(q, i) : q \in Regions, i \in BatchRange(first, upto)}
BatchKeys(r, first, upto) == {raft_log_key(r, i) : i \in BatchRange(first, upto)}

\* lines 86-89: the column family after the loop has visited them
RECURSIVE LoopEffect(_, _, _, _)
LoopEffect(cf, r, i, upto) ==
    IF i >= upto THEN cf
    ELSE LoopEffect(delete_cf(cf, raft_log_key(r, i)), r, i + 1, upto)

\* line 92  (CountRunningTotal is the faulty variant of a Runner with a field
\* that adds up over the calls it has served)
CountRunningTotal(first, stop) == (stop - first) + (begun - 1)
Count(first, stop) == stop - first

\* run() drops the task once its outcome is logged (lines 114-115, 120-122);
\* the worker's tasks after it are those it already held.  (RequeueFailed is
\* the faulty variant that hands a failed task back to be run again.)
RequeueFailed(q, t, r) == IF r.kind = "Err" THEN Append(q, t) ELSE q
AfterRun(q, t, r) == q

\* the operation returns `r` to run(): box_try! turns every failure of a call
\* into an Err that is returned.  (PanicOnError is the faulty variant that
\* unwraps instead: a failure ends the worker thread inside the call.)
PanicOnError(r) ==
    IF r.kind = "Err" THEN pc' = "panicked" /\ res' = NoRes
                      ELSE pc' = "done" /\ res' = r
Return(r) ==
    /\ pc' = "done"
    /\ res' = r

\* ----------------------------------------------------------------- Init
Init ==
    /\ raft = {}
    /\ wal = {}
    /\ lock = {}
    /\ queue = <<>>
    /\ pc = "idle"
    /\ task = NoTask
    /\ first_idx = 0
    /\ wb = {}
    /\ res = NoRes
    /\ writes = 0
    /\ reqs = <<>>
    /\ fg = 0
    /\ pre = {}
    /\ quiet = TRUE
    /\ last = NoTask
    /\ again = FALSE
    /\ recovered = {}
    /\ sent = <<>>
    /\ begun = 0
    /\ left = {}
    /\ late = {}

\* -------------------------------------------------------------- actions
\* the worker, its Runner idle, receives the next task from its channel
Deliver(t) ==
    /\ pc = "idle"
    /\ queue = <<>>
    /\ queue' = Append(queue, t)
    /\ again' = (last = t)
    /\ last' = NoTask
    /\ recovered' = {}
    /\ sent' = <<t>>
    /\ begun' = 0
    /\ left' = {}
    /\ UNCHANGED <<engine, pc, task, res, locals, fg, pre, quiet, late>>

\* run(task): the worker calls run() with the oldest task it holds and
\* run() dispatches on the variant (lines 107-113, 118-120)
RunBegin ==
    /\ pc = "idle"
    /\ queue # <<>>
    /\ task' = Head(queue)
    /\ queue' = Tail(queue)
    /\ pc' = IF Head(queue).type = "CompactRaftLog" THEN "seek" ELSE "lock"
    /\ res' = NoRes
    /\ pre' = raft
    /\ quiet' = TRUE
    /\ begun' = begun + 1
    /\ UNCHANGED <<engine, locals, fg, last, again, recovered, sent, left, late>>

\* compact_raft_log lines 75-83
SeekStep(seek_ok) ==
    /\ pc = "seek"
    /\ LET f == FirstIdx(raft, task)
       IN  IF ~seek_ok \/ f.kind = "Err"
           THEN Return(Err) /\ UNCHANGED first_idx
           ELSE IF NoNeed(f.n, task.compact_idx)
           THEN Return(Ok(0)) /\ UNCHANGED first_idx
           ELSE pc' = "batch" /\ first_idx' = f.n /\ UNCHANGED res
    /\ UNCHANGED <<engine, queue, task, wb, writes, reqs, fg, hist, order>>

\* compact_raft_log lines 84-89; `handle_ok` is get_cf_handle's outcome and
\* `upto` the index whose delete_cf fails (compact_idx when none does)
BatchStep(handle_ok, upto) ==
    /\ pc = "batch"
    /\ upto \in first_idx..task.compact_idx
    /\ IF ~handle_ok
       THEN Return(Err) /\ UNCHANGED <<wb, raft, wal>>
       ELSE /\ raft' = LoopEffect(raft, task.region_id, first_idx, upto)
            /\ wal' = LoopEffect(wal, task.region_id, first_idx, upto)
            /\ IF upto < task.compact_idx
               THEN Return(Err) /\ UNCHANGED wb
               ELSE /\ wb' = BatchKeys(task.region_id, first_idx, upto)
                    /\ pc' = "write"
                    /\ UNCHANGED res
    /\ UNCHANGED <<lock, queue, task, first_idx, writes, reqs, fg, hist, order>>

\* compact_raft_log lines 91-92
WriteStep(write_ok) ==
    /\ pc = "write"
    /\ writes' = writes + 1
    /\ IF write_ok
       THEN /\ raft' = write(raft, wb)
            /\ wal' = write_wal(wal, wb)
            /\ Return(Ok(Count(first_idx, task.compact_idx)))
       ELSE Return(Err) /\ UNCHANGED <<raft, wal>>
    /\ UNCHANGED <<lock, queue, task, first_idx, wb, reqs, fg, hist, order>>

\* compact_lock_cf lines 100-102
CompactLockStep(handle_ok) ==
    /\ pc = "lock"
    /\ IF handle_ok
       THEN /\ reqs' = Append(reqs, compact_range_cf(CF_LOCK, task.start_key, task.end_key))
            /\ Return(Ok(0))
       ELSE Return(Err) /\ UNCHANGED reqs
    /\ UNCHANGED <<engine, queue, task, first_idx, wb, writes, fg, hist, order>>

\* run() lines 114-116 and 120-123: log the outcome and return
Finish ==
    /\ pc = "done"
    /\ queue' = AfterRun(queue, task, res)
    /\ pc' = "idle"
    /\ task' = NoTask
    /\ first_idx' = 0
    /\ wb' = {}
    /\ res' = NoRes
    /\ writes' = 0
    /\ reqs' = <<>>
    /\ pre' = {}
    /\ quiet' = TRUE
    /\ last' = IF res.kind = "Ok" /\ quiet THEN task ELSE NoTask
    /\ again' = FALSE
    /\ left' = raft
    /\ late' = {}
    /\ UNCHANGED <<engine, fg, recovered, sent, begun>>

\* the rest of the system writes the shared engine
PutAfterSeek(k) ==
    /\ pc \in {"batch", "write"}
    /\ \E i \in Indices : i >= task.compact_idx /\ k = raft_log_key(task.region_id, i)

ForegroundPut(k) ==
    /\ fg < MaxWrites
    /\ k \notin raft
    /\ raft' = raft \cup {k}
    /\ wal' = wal \cup {k}
    /\ fg' = fg + 1
    /\ quiet' = (pc = "idle")
    /\ pre' = {}
    /\ last' = NoTask
    /\ again' = FALSE
    /\ recovered' = {}
    /\ left' = {}
    /\ late' = IF PutAfterSeek(k) THEN late \cup {k} ELSE late
    /\ UNCHANGED <<lock, queue, pc, task, res, locals, sent, begun>>

ForegroundDelete(k) ==
    /\ fg < MaxWrites
    /\ k \in raft
    /\ raft' = raft \ {k}
    /\ wal' = wal \ {k}
    /\ fg' = fg + 1
    /\ quiet' = (pc = "idle")
    /\ pre' = {}
    /\ last' = NoTask
    /\ again' = FALSE
    /\ recovered' = {}
    /\ left' = {}
    /\ late' = late \ {k}
    /\ UNCHANGED <<lock, queue, pc, task, res, locals, sent, begun>>

LockWrite(k) ==
    /\ fg < MaxWrites
    /\ lock' = IF k \in lock THEN lock \ {k} ELSE lock \cup {k}
    /\ fg' = fg + 1
    /\ UNCHANGED <<raft, wal, queue, pc, task, res, locals, hist, order>>

\* the process dies and restarts: the engine recovers what its write-ahead
\* log holds, the Runner and the tasks the worker held are gone
Crash ==
    /\ raft' = wal
    /\ queue' = <<>>
    /\ pc' = "idle"
    /\ task' = NoTask
    /\ first_idx' = 0
    /\ wb' = {}
    /\ res' = NoRes
    /\ writes' = 0
    /\ reqs' = <<>>
    /\ pre' = {}
    /\ quiet' = TRUE
    /\ last' = NoTask
    /\ again' = FALSE
    /\ recovered' = IF pc = "done" /\ res.kind = "Ok" /\ quiet THEN wb ELSE {}
    /\ sent' = <<>>
    /\ begun' = 0
    /\ left' = {}
    /\ late' = {}
    /\ UNCHANGED <<wal, lock, fg>>

RunnerStep ==
    \/ RunBegin
    \/ \E seek_ok \in BOOLEAN : SeekStep(seek_ok)
    \/ \E handle_ok \in BOOLEAN, upto \in CompactTo : BatchStep(handle_ok, upto)
    \/ \E write_ok \in BOOLEAN : WriteStep(write_ok)
    \/ \E handle_ok \in BOOLEAN : CompactLockStep(handle_ok)
    \/ Finish

Environment ==
    \/ \E t \in Tasks : Deliver(t)
    \/ \E k \in RaftKeys : ForegroundPut(k)
    \/ \E k \in RaftKeys : ForegroundDelete(k)
    \/ \E k \in LockKeys : LockWrite(k)

Next == RunnerStep \/ Environment

Spec == Init /\ [][Next]_vars

\* the same system when the process may crash and restart
CrashNext == Next \/ Crash

CrashSpec == Init /\ [][CrashNext]_vars

\* the same system when the worker thread keeps running
FairSpec == Spec /\ WF_vars(RunnerStep)

\* ------------------------------------------------- the worker's channel
\* another component schedules a task: it joins the tasks the worker holds,
\* behind those already there, whatever the Runner is doing
Schedule(t) ==
    /\ Len(sent) < MaxTasks
    /\ queue' = Append(queue, t)
    /\ sent' = Append(sent, t)
    /\ UNCHANGED <<engine, pc, task, res, locals, fg, hist, begun, left>>

\* every region has its whole log and nobody but the Runner writes the
\* engine: the Runner working through a channel of scheduled tasks
QueueInit ==
    /\ raft = LogKeys
    /\ wal = LogKeys
    /\ lock = {}
    /\ queue = <<>>
    /\ pc = "idle"
    /\ task = NoTask
    /\ first_idx = 0
    /\ wb = {}
    /\ res = NoRes
    /\ writes = 0
    /\ reqs = <<>>
    /\ fg = 0
    /\ pre = {}
    /\ quiet = TRUE
    /\ last = NoTask
    /\ again = FALSE
    /\ recovered = {}
    /\ sent = <<>>
    /\ begun = 0
    /\ left = {}
    /\ late = {}

QueueNext == RunnerStep \/ \E t \in Tasks : Schedule(t)

QueueSpec == QueueInit /\ [][QueueNext]_vars

FairQueueSpec == QueueSpec /\ WF_vars(RunnerStep)

\* ------------------------------------------------------------ properties
IsRaftRun == pc \in {"seek", "batch", "write"}
RaftDone  == pc = "done" /\ task.type = "CompactRaftLog"
LockDone  == pc = "done" /\ task.type = "CompactLockCF"

\* the log keys of region r
RegionKeys(r) == {raft_log_key(r, i) : i \in Indices}

\* the indices of region r's log entries in a column family
RegionLog(cf, r) == {i \in Indices : raft_log_key(r, i) \in cf}
SetMin(S) == CHOOSE x \in S : \A y \in S : x <= y

\* the keys of the running task's region with index in [first, compact_idx)
RangeKeysOf(first) ==
    {raft_log_key(task.region_id, i) : i \in first..(task.compact_idx - 1)}

\* C1: no step of a CompactRaftLog(region_id, compact_idx) run, whatever
\* other components write in between, removes a log entry of that region
\* whose index is at or above compact_idx.
C1_KeepsAtOrAboveCompactIdx ==
    [][ (IsRaftRun /\ pc' # pc) =>
            \A i \in Indices :
                (i >= task.compact_idx /\ raft_log_key(task.region_id, i) \in raft)
                    => raft_log_key(task.region_id, i) \in raft' ]_vars

\* a run that deleted entries, with another component writing meanwhile,
\* has ended and an entry at or above compact_idx is still there
C1_Witness ==
    /\ RaftDone /\ ~quiet
    /\ res.kind = "Ok" /\ res.n > 0
    /\ \E i \in RegionLog(raft, task.region_id) : i >= task.compact_idx

\* C2: when the region's first log index is below compact_idx and the call
\* succeeds, no entry of the region with index in [first, compact_idx) is
\* left, gaps in that range or not, and the entries at or above compact_idx
\* are exactly those from before the call.
C2_RemovesExactlyBelow ==
    (/\ RaftDone /\ quiet /\ res.kind = "Ok"
     /\ RegionLog(pre, task.region_id) # {}
     /\ SetMin(RegionLog(pre, task.region_id)) < task.compact_idx)
    => LET before == RegionLog(pre, task.region_id)
           after  == RegionLog(raft, task.region_id)
       IN  /\ \A i \in SetMin(before)..(task.compact_idx - 1) : i \notin after
           /\ {i \in after : i >= task.compact_idx}
                = {i \in before : i >= task.compact_idx}

\* a successful call on a log with a gap below compact_idx that removed an
\* entry and retained another
C2_Witness ==
    /\ RaftDone /\ quiet /\ res.kind = "Ok"
    /\ LET before == RegionLog(pre, task.region_id)
       IN  /\ \E i \in before : i < task.compact_idx
           /\ \E i \in before : i >= task.compact_idx
           /\ \E i \in Indices :
                 /\ i \notin before /\ i < task.compact_idx
                 /\ \E j \in before : j < i
    /\ RegionLog(raft, task.region_id) # {}

\* C3: a call that returns an Error leaves CF_RAFT as it was before the
\* call, and every step of a call either leaves CF_RAFT alone or removes
\* the whole of [first_idx, compact_idx) at once.
C3_AllOrNothing ==
    [][ /\ (pc' = "done" /\ task'.type = "CompactRaftLog" /\ quiet' /\ res'.kind = "Err")
            => raft' = pre'
        /\ (IsRaftRun /\ pc' # pc)
            => (raft' = raft \/ raft' = raft \ RangeKeysOf(first_idx)) ]_vars

\* the final write of a batch of two live entries failed and both are there
C3_Witness ==
    /\ RaftDone /\ quiet /\ res.kind = "Err" /\ writes = 1
    /\ Cardinality(wb) >= 2 /\ wb \subseteq raft

\* C4: when the task's region has no log entry, the call returns the count
\* 0 and issues no engine write, whatever else CF_RAFT holds.
C4_EmptyRegionIsNoop ==
    (RaftDone /\ quiet /\ RegionLog(pre, task.region_id) = {})
    => (res.kind = "Ok" => res.n = 0) /\ writes = 0

\* the precondition of C5: the region has entries, none below compact_idx
NothingBelow(cf, t) ==
    /\ RegionLog(cf, t.region_id) # {}
    /\ \A i \in RegionLog(cf, t.region_id) : i >= t.compact_idx

\* C5 as stated: with entries in the region and none below compact_idx the
\* call returns 0, builds no batch, issues no write and changes nothing.
C5_AlwaysReturnsZero ==
    (RaftDone /\ quiet /\ NothingBelow(pre, task))
    => res = Ok(0) /\ wb = {} /\ writes = 0 /\ raft = pre

\* C5 as amended: with entries in the region and none below compact_idx the
\* call returns 0 when its seek succeeds and an Error when its seek fails,
\* and either way builds no batch, issues no write and changes nothing.
C5_NoopWhenNothingBelow ==
    [][ /\ (pc' = "done" /\ task'.type = "CompactRaftLog" /\ quiet'
              /\ NothingBelow(pre', task'))
            => /\ res' \in {Ok(0), Err}
               /\ wb' = {} /\ writes' = 0 /\ raft' = pre'
        /\ (pc = "seek" /\ NothingBelow(raft, task))
            => /\ SeekStep(TRUE) => res' = Ok(0)
               /\ SeekStep(FALSE) => res' = Err ]_vars

\* such a call has returned 0
C5_Witness ==
    /\ RaftDone /\ quiet /\ NothingBelow(pre, task)
    /\ res = Ok(0)

\* C6: a call repeated with the same arguments after it succeeded, with no
\* write in between, returns 0 and does not change the engine.
C6_SecondCallIsNoop ==
    (RaftDone /\ again /\ quiet /\ res.kind = "Ok")
    => res.n = 0 /\ writes = 0 /\ raft = pre

\* C7: the count a successful call returns is the number of the region's
\* entries that were there before the call and are gone after it.
C7_ReturnsDeletedCount ==
    (RaftDone /\ quiet /\ res.kind = "Ok")
    => res.n = Cardinality(RegionLog(pre, task.region_id)
                             \ RegionLog(raft, task.region_id))

\* C8: once an operation has returned an Error, run() returns, leaving the
\* Runner idle and the failed task nowhere to be run again, and every task
\* the worker holds or is running, before or after a failure, is run until
\* run() returns.
C8_FailureIsDropped ==
    /\ [][ (pc = "done" /\ res.kind = "Err" /\ pc' # pc)
             => (pc' = "idle" /\ task' = NoTask /\ queue' = queue) ]_vars
    /\ (queue # <<>> \/ pc # "idle") ~> (pc = "idle" /\ queue = <<>>)

\* an operation has returned an Error to run()
C8_Witness ==
    /\ pc = "done" /\ res.kind = "Err"
    /\ queue = <<>>

\* C9: what a crash would recover changes, during a call, only by the whole
\* batch at once; a write reported successful is in it; and recovery brings
\* back no entry that was deleted, those of a batch reported written least
\* of all.
C9_BatchIsDurable ==
    /\ [][ /\ ((pc = "write" /\ pc' = "done" /\ res'.kind = "Ok") => wal' = wal \ wb)
            /\ ((IsRaftRun /\ pc' # pc)
                  => (wal' = wal \/ wal' = wal \ RangeKeysOf(first_idx)))
            /\ (Crash => raft' \subseteq raft) ]_vars
    /\ [](recovered \cap raft = {})

\* the process crashed after a batch that deleted live entries was reported
\* written, and the recovered engine holds none of them
C9_Witness ==
    /\ pc = "idle"
    /\ recovered # {}
    /\ recovered \cap raft = {}

\* the request the engine should receive for the running CompactLockCF task
ExpectedRequest ==
    [cf |-> CF_LOCK, start_key |-> task.start_key, end_key |-> task.end_key]

WholeKeySpace(req) == \A k \in LockKeys : InRange(req, k)

\* C10 as stated: every CompactLockCF run issues exactly one range
\* compaction, on the lock column family, with the task's keys unchanged;
\* with both keys empty it covers the whole lock key space.
C10_AlwaysOneRequest ==
    LockDone
    => /\ reqs = <<ExpectedRequest>>
       /\ (task.start_key = EmptyKey /\ task.end_key = EmptyKey)
            => WholeKeySpace(reqs[1])

\* C10 as amended: the run issues exactly that one request when the lock
\* column family's handle is resolved, and none (returning an Error) when
\* it is not.
C10_OneRequestWhenHandleResolves ==
    LockDone
    => IF res.kind = "Ok"
       THEN /\ reqs = <<ExpectedRequest>>
            /\ (task.start_key = EmptyKey /\ task.end_key = EmptyKey)
                 => WholeKeySpace(reqs[1])
       ELSE res = Err /\ reqs = <<>>

\* a task with both keys empty has had its request issued
C10_Witness ==
    /\ LockDone /\ res.kind = "Ok"
    /\ task.start_key = EmptyKey /\ task.end_key = EmptyKey
    /\ Len(reqs) = 1

\* C11: the worker runs the scheduled tasks one at a time, in the order they
\* were scheduled and each exactly once: the tasks still waiting are those
\* scheduled after the last one run() was called with, in the same order;
\* the task in progress is that last one and all before it have returned;
\* and a run that follows another starts from the engine state the other
\* left.
C11_InOrderExactlyOnce ==
    /\ begun <= Len(sent)
    /\ queue = SubSeq(sent, begun + 1, Len(sent))
    /\ (pc = "idle" => task = NoTask)
    /\ (pc # "idle" => (begun >= 1 /\ task = sent[begun]))
    /\ ((pc # "idle" /\ begun > 1) => pre = left)

\* two tasks for the same region were scheduled; the first one deleted
\* entries and the second one, run after it, has deleted more
C11_Witness ==
    /\ RaftDone /\ res.kind = "Ok" /\ res.n > 0
    /\ begun = 2 /\ Len(sent) = 2
    /\ sent[1].type = "CompactRaftLog"
    /\ sent[1].region_id = task.region_id
    /\ left # LogKeys
    /\ raft # left

\* C12: with other components reading and writing the engine between the
\* steps of a CompactRaftLog call, the only step of the call that changes
\* CF_RAFT is the write of the batch, which removes every key staged for
\* [first_idx, compact_idx) in that one step, so no state shows a part of
\* them removed; and an entry at or above compact_idx that another
\* component put after the call's seek is there once the batch is written.
C12_AtomicAmongWriters ==
    /\ [][ /\ ((IsRaftRun /\ pc' # pc /\ raft' # raft)
                 => /\ pc = "write" /\ res'.kind = "Ok"
                    /\ wb = RangeKeysOf(first_idx)
                    /\ raft' = raft \ wb)
           /\ ((pc = "write" /\ pc' = "done") => late \subseteq raft') ]_vars
    /\ [](RaftDone => late \subseteq raft)

\* a batch that removed entries was written after another component had
\* put an entry at or above compact_idx behind the call's seek
C12_Witness ==
    /\ RaftDone /\ res.kind = "Ok" /\ res.n > 0 /\ writes = 1
    /\ ~quiet
    /\ late # {}
    /\ wb # {} /\ wb \cap raft = {}
    /\ raft \subseteq RegionKeys(task.region_id)

\* C13: no step of the Runner adds a key to a column family; the steps of a
\* CompactRaftLog call remove nothing but log keys of the task's own region
\* from CF_RAFT (log entries of other regions and the other records of the
\* column family stay) and leave CF_LOCK alone; the steps of a CompactLockCF
\* call, resolved handle or not, leave every column family as it was.
C13_OnlyOwnLogKeysRemoved ==
    [][ (pc' # pc) =>
          /\ raft' \subseteq raft
          /\ wal' \subseteq wal
          /\ lock' = lock
          /\ (IsRaftRun
                => /\ (raft \ raft') \subseteq RegionKeys(task.region_id)
                   /\ (wal \ wal') \subseteq RegionKeys(task.region_id))
          /\ (~IsRaftRun => (raft' = raft /\ wal' = wal)) ]_vars

\* a call has removed entries of its region from a CF_RAFT that holds a
\* key of another region or another record, which is still there
C13_Witness ==
    /\ RaftDone /\ res.kind = "Ok" /\ writes = 1 /\ quiet
    /\ wb # {} /\ wb \subseteq pre /\ raft = pre \ wb
    /\ raft \ RegionKeys(task.region_id) # {}

\* a CompactLockCF call has returned, CF_LOCK holding a key inside its range
C13_LockWitness ==
    /\ LockDone /\ Len(reqs) = 1
    /\ \E k \in lock : InRange(reqs[1], k)

\* what a single successful CompactRaftLog(r, c) leaves of a column family:
\* the region's entries below c are gone and nothing else is
Compacted(cf, r, c) == cf \ {raft_log_key(r, i) : i \in 1..(c - 1)}

Max(a, b) == IF a >= b THEN a ELSE b

\* two CompactRaftLog tasks for one region were scheduled and the second
\* has returned successfully
TwoForOneRegion ==
    /\ RaftDone /\ res.kind = "Ok"
    /\ begun = 2
    /\ sent[1].type = "CompactRaftLog"
    /\ sent[1].region_id = task.region_id

\* the first of the two succeeded
FirstSucceeded == last = sent[1]

\* C14 as stated: two tasks for one region, run one after the other in
\* either order, the first failed or not, leave (once the second succeeds)
\* what a single successful task for the higher index leaves; and a task
\* with a lower index run after one with a higher index deletes nothing.
C14_SubsumesWhateverFailed ==
    TwoForOneRegion
    => /\ raft = Compacted(LogKeys, task.region_id,
                           Max(sent[1].compact_idx, task.compact_idx))
       /\ (task.compact_idx < sent[1].compact_idx => raft = left)

\* C14 as amended: that holds when the task with the higher index is not
\* one that failed, that is when the first task succeeded or its index is
\* not above the second's; after a first task that failed the second leaves
\* what a single task for its own index leaves.
C14_SubsumesWhenHigherSucceeded ==
    TwoForOneRegion
    => /\ ((FirstSucceeded \/ sent[1].compact_idx <= task.compact_idx)
             => raft = Compacted(LogKeys, task.region_id,
                                 Max(sent[1].compact_idx, task.compact_idx)))
       /\ ((FirstSucceeded /\ task.compact_idx < sent[1].compact_idx)
             => raft = left)
       /\ (~FirstSucceeded
             => (left = LogKeys
                 /\ raft = Compacted(LogKeys, task.region_id, task.compact_idx)))

\* a task with a lower index has run after one with a higher index that
\* deleted entries, and has left the engine as it found it
C14_Witness ==
    /\ TwoForOneRegion /\ FirstSucceeded
    /\ task.compact_idx < sent[1].compact_idx
    /\ left # LogKeys
    /\ raft = left

\* an operation of the Runner is in progress
IsRunning == pc \in {"seek", "batch", "write", "lock"}

\* C15: while the worker thread keeps running, every operation ends in a
\* success or an Error that run() receives, and again and again every task
\* scheduled so far has been run and nothing is in progress: an operation
\* in progress comes to return and a task that waits comes to be run.
C15_RunsToCompletion ==
    /\ [](pc = "done" => res.kind \in {"Ok", "Err"})
    /\ []<>(begun = Len(sent) /\ ~IsRunning)

\* the second of two scheduled tasks, scheduled while the first was in
\* progress or waiting, has returned from a batch over the whole log
C15_Witness ==
    /\ RaftDone /\ res.kind \in {"Ok", "Err"}
    /\ begun = 2 /\ Len(sent) = 2
    /\ writes = 1
    /\ Cardinality(wb) = MaxIdx

\* the results and final contents of CF_RAFT that task t can end with when
\* run on contents cf, as a function of t and cf alone: an Error with cf
\* untouched, or the success that the first key found from the region's
\* start key determines
OutcomesOf(cf, t) ==
    IF t.type = "CompactLockCF"
    THEN {<<Err, cf>>, <<Ok(0), cf>>}
    ELSE LET f == FirstIdx(cf, t)
         IN  {<<Err, cf>>}
             \cup (IF f.kind = "Err" THEN {}
                   ELSE IF f.n >= t.compact_idx THEN {<<Ok(0), cf>>}
                   ELSE {<<Ok(t.compact_idx - f.n),
                           cf \ {raft_log_key(t.region_id, i) :
                                     i \in f.n..(t.compact_idx - 1)}>>})

\* C16: whatever tasks the Runner has run before, what a run() returns and
\* the CF_RAFT it leaves are among the outcomes that the task and the
\* CF_RAFT it started from determine; and between two calls the Runner
\* holds nothing of the calls before.
C16_Stateless ==
    /\ (pc = "done" /\ quiet) => <<res, raft>> \in OutcomesOf(pre, task)
    /\ (pc = "idle") => (task = NoTask /\ res = NoRes /\ locals = <<0, {}, 0, <<>>>>)

\* a task has deleted entries on the engine state the worker started with,
\* after another task for the same region that failed had run
C16_Witness ==
    /\ RaftDone /\ quiet /\ res.kind = "Ok" /\ res.n > 0
    /\ begun = 2
    /\ sent[1].type = "CompactRaftLog" /\ sent[1].region_id = task.region_id
    /\ last = NoTask
    /\ pre = LogKeys /\ raft # pre

\* C17: a compact_lock_cf call whose get_cf_handle(CF_LOCK) fails returns an
\* Error and issues no request; one whose handle is resolved issues the
\* request for the task's range and returns success; nothing else makes it
\* fail, and CF_LOCK's contents play no part.
C17_FailsOnlyWithoutHandle ==
    [][ /\ (CompactLockStep(FALSE)
              => (res' = Err /\ reqs' = reqs /\ pc' = "done"))
        /\ (CompactLockStep(TRUE)
              => (/\ res'.kind = "Ok" /\ pc' = "done"
                  /\ reqs' = Append(reqs, ExpectedRequest)))
        /\ ((pc = "lock" /\ pc' # pc)
              => (CompactLockStep(TRUE) \/ CompactLockStep(FALSE))) ]_vars

\* the handle of CF_LOCK could not be resolved for a task run while the
\* column family holds a key: an Error and no request
C17_Witness ==
    /\ LockDone /\ res = Err
    /\ reqs = <<>>
    /\ lock # {}

====
